---- MODULE Spec2Model ----
(***************************************************************************)
(* Model of two peripherals of the TI-84 Plus CE emulator core:            *)
(*   - PanelStub        (core/src/peripherals/panel.rs), the ST7789V       *)
(*     command/parameter state machine behind the 9-bit SPI transport;     *)
(*   - Sha256Controller (core/src/peripherals/sha256.rs), the register     *)
(*     file of the SHA256 accelerator stub.                                *)
(* Each peripheral is a record with the fields of the Rust struct; each    *)
(* method is an operator from the old record to the new one, and each      *)
(* public call is one action.  Two example programs are modelled too: the  *)
(* opcode column of the trace logger (core/examples/clean_trace.rs) and    *)
(* the command loop of the keypad tool (core/examples/keypad_debug.rs).    *)
(***************************************************************************)
EXTENDS Integers, Sequences, FiniteSets, TLC

VARIABLES
    panel,    \* the PanelStub value
    ret,      \* value returned by the last PanelStub::transfer call (0: none yet)
    status,   \* "running", or "panicked" once a transfer call has unwound
    frame,    \* history: the last frame handed to transfer (NoFrame: none yet)
    args,     \* history: the data bytes received since the last command frame
              \*          (the first MaxArgs of them)
    command,  \* history: the byte of the last command frame (NoFrame: none yet)
    sent,     \* history: every frame handed to transfer since new(), kept by
              \*          the scenario specification only
    sha,      \* the Sha256Controller value
    op,       \* history: the last call made on the controller
    done,     \* history: every write made since new(), kept by the scenario
              \*          specification only
    ops,      \* clean_trace: op1..op4, the four bytes peeked at PC
    op_str,   \* clean_trace: the op field of the snapshot, as its characters
              \*              (empty: not formatted yet)
    rpc,      \* keypad_debug: where main is
    emu,      \* keypad_debug: the local `emu`
    stdin,    \* keypad_debug: "open", or "eof" once the input is exhausted
    line,     \* keypad_debug: `parts` of the last line read
    ffi,      \* history: the last call made through the FFI
    tally     \* history: the calls of emu_create and emu_destroy so far and
              \*          the pointer emu_create returned

pvars == <<panel, ret, status, frame, args, command, sent>>
svars == <<sha, op, done>>
tvars == <<ops, op_str>>
rvars == <<rpc, emu, stdin, line, ffi, tally>>
vars  == <<panel, ret, status, frame, args, command, sent, sha, op, done,
           ops, op_str, rpc, emu, stdin, line, ffi, tally>>

(***************************************************************************)
(* Bit arithmetic.  TLC integers are 32-bit signed, so a u32 is kept as    *)
(* two 16-bit halves and the operators below work on the halves.           *)
(***************************************************************************)
RECURSIVE BitAnd(_, _)
BitAnd(a, b) ==
    IF a = 0 \/ b = 0 THEN 0
    ELSE (a % 2) * (b % 2) + 2 * BitAnd(a \div 2, b \div 2)

BitOr(a, b) == a + b - BitAnd(a, b)

Pow2(n) == 2 ^ n

(***************************************************************************)
(* PanelStub                                                               *)
(***************************************************************************)
NOP     == 0
SWRESET == 1
SLPIN   == 16
SLPOUT  == 17
INVOFF  == 32
INVON   == 33
DISPOFF == 40
DISPON  == 41
CASET   == 42
RASET   == 43
RAMWR   == 44
RAMWRC  == 60
MADCTL  == 54
COLMOD  == 58

\* PanelStub::new
PanelNew ==
    [ current_cmd |-> 0,
      param_idx   |-> 0,
      param_count |-> 0,
      sleeping    |-> TRUE,
      display_on  |-> FALSE,
      inverted    |-> FALSE,
      madctl      |-> 0,
      colmod      |-> 0,
      caset       |-> <<0, 0, 0, 0>>,
      raset       |-> <<0, 0, 0, 0>> ]

\* mutant: reset leaves the panel as it is
PanelReset_Keep(p) == p

\* PanelStub::reset: *self = Self::new()
PanelReset(p) == PanelNew

\* mutant: a command outside the table expects no parameters
CmdTable_UnknownZero(p, cmd) ==
    CASE cmd = SLPIN   -> [p EXCEPT !.sleeping = TRUE,    !.param_count = 0]
      [] cmd = SLPOUT  -> [p EXCEPT !.sleeping = FALSE,   !.param_count = 0]
      [] cmd = INVOFF  -> [p EXCEPT !.inverted = FALSE,   !.param_count = 0]
      [] cmd = INVON   -> [p EXCEPT !.inverted = TRUE,    !.param_count = 0]
      [] cmd = DISPOFF -> [p EXCEPT !.display_on = FALSE, !.param_count = 0]
      [] cmd = DISPON  -> [p EXCEPT !.display_on = TRUE,  !.param_count = 0]
      [] cmd = CASET   -> [p EXCEPT !.param_count = 4]
      [] cmd = RASET   -> [p EXCEPT !.param_count = 4]
      [] cmd = MADCTL  -> [p EXCEPT !.param_count = 1]
      [] cmd = COLMOD  -> [p EXCEPT !.param_count = 1]
      [] OTHER         -> [p EXCEPT !.param_count = 0]

\* mutant: DISPON also wakes the panel
CmdTable_DisponWakes(p, cmd) ==
    CASE cmd = NOP \/ cmd = SWRESET -> [p EXCEPT !.param_count = 0]
      [] cmd = SLPIN   -> [p EXCEPT !.sleeping = TRUE,    !.param_count = 0]
      [] cmd = SLPOUT  -> [p EXCEPT !.sleeping = FALSE,   !.param_count = 0]
      [] cmd = INVOFF  -> [p EXCEPT !.inverted = FALSE,   !.param_count = 0]
      [] cmd = INVON   -> [p EXCEPT !.inverted = TRUE,    !.param_count = 0]
      [] cmd = DISPOFF -> [p EXCEPT !.display_on = FALSE, !.param_count = 0]
      [] cmd = DISPON  -> [p EXCEPT !.display_on = TRUE,  !.sleeping = FALSE,
                                    !.param_count = 0]
      [] cmd = CASET   -> [p EXCEPT !.param_count = 4]
      [] cmd = RASET   -> [p EXCEPT !.param_count = 4]
      [] cmd = MADCTL  -> [p EXCEPT !.param_count = 1]
      [] cmd = COLMOD  -> [p EXCEPT !.param_count = 1]
      [] cmd = RAMWR \/ cmd = RAMWRC -> [p EXCEPT !.param_count = 0]
      [] OTHER         -> [p EXCEPT !.param_count = 255]

\* the match of write_cmd: the side effect of the command and its
\* parameter count
CmdTable(p, cmd) ==
    CASE cmd = NOP \/ cmd = SWRESET -> [p EXCEPT !.param_count = 0]
      [] cmd = SLPIN   -> [p EXCEPT !.sleeping = TRUE,    !.param_count = 0]
      [] cmd = SLPOUT  -> [p EXCEPT !.sleeping = FALSE,   !.param_count = 0]
      [] cmd = INVOFF  -> [p EXCEPT !.inverted = FALSE,   !.param_count = 0]
      [] cmd = INVON   -> [p EXCEPT !.inverted = TRUE,    !.param_count = 0]
      [] cmd = DISPOFF -> [p EXCEPT !.display_on = FALSE, !.param_count = 0]
      [] cmd = DISPON  -> [p EXCEPT !.display_on = TRUE,  !.param_count = 0]
      [] cmd = CASET   -> [p EXCEPT !.param_count = 4]
      [] cmd = RASET   -> [p EXCEPT !.param_count = 4]
      [] cmd = MADCTL  -> [p EXCEPT !.param_count = 1]
      [] cmd = COLMOD  -> [p EXCEPT !.param_count = 1]
      [] cmd = RAMWR \/ cmd = RAMWRC -> [p EXCEPT !.param_count = 0]
      [] OTHER         -> [p EXCEPT !.param_count = 255]

\* mutant: param_idx is not rewound
write_cmd_KeepIdx(p, cmd) ==
    LET p1 == [p EXCEPT !.current_cmd = cmd]
        p2 == CmdTable(p1, cmd)
    IN  IF cmd = SWRESET THEN PanelReset(p2) ELSE p2

\* PanelStub::write_cmd
write_cmd(p, cmd) ==
    LET p1 == [p EXCEPT !.current_cmd = cmd, !.param_idx = 0]
        p2 == CmdTable(p1, cmd)
    IN  IF cmd = SWRESET THEN PanelReset(p2) ELSE p2

\* mutant: the windows are filled from the last element down
StoreParam_Reversed(p, param) ==
    CASE p.current_cmd = CASET ->
            IF p.param_idx < Len(p.caset)
            THEN [p EXCEPT !.caset[Len(p.caset) - p.param_idx] = param] ELSE p
      [] p.current_cmd = RASET ->
            IF p.param_idx < Len(p.raset)
            THEN [p EXCEPT !.raset[Len(p.raset) - p.param_idx] = param] ELSE p
      [] p.current_cmd = MADCTL -> [p EXCEPT !.madctl = param]
      [] p.current_cmd = COLMOD -> [p EXCEPT !.colmod = param]
      [] OTHER -> p

\* the match of write_param: the byte goes to the register of the current
\* command, at param_idx for the two windows (Rust index i is element i+1)
StoreParam(p, param) ==
    CASE p.current_cmd = CASET ->
            IF p.param_idx < Len(p.caset)
            THEN [p EXCEPT !.caset[p.param_idx + 1] = param] ELSE p
      [] p.current_cmd = RASET ->
            IF p.param_idx < Len(p.raset)
            THEN [p EXCEPT !.raset[p.param_idx + 1] = param] ELSE p
      [] p.current_cmd = MADCTL -> [p EXCEPT !.madctl = param]
      [] p.current_cmd = COLMOD -> [p EXCEPT !.colmod = param]
      [] OTHER -> p

\* `self.param_idx += 1` on a u8 that is already 255: the addition overflows
Overflows(p) == p.param_count # 0 /\ p.param_idx = 255

\* mutant: param_idx is never advanced
write_param_NoIncrement(p, param) ==
    IF p.param_count = 0 THEN p ELSE StoreParam(p, param)

\* mutant: no early return once the parameters are consumed
write_param_NoEarlyReturn(p, param) ==
    LET p1 == StoreParam(p, param)
        p2 == [p1 EXCEPT !.param_idx = (p1.param_idx + 1) % 256]
    IN  IF p2.param_idx >= p2.param_count /\ p2.param_count # 255
        THEN [p2 EXCEPT !.param_count = 0]
        ELSE p2

\* PanelStub::write_param, for a call that returns.  When the increment
\* overflows, a build without overflow checks wraps param_idx to 0.
write_param(p, param) ==
    IF p.param_count = 0 THEN p
    ELSE LET p1 == StoreParam(p, param)
             p2 == [p1 EXCEPT !.param_idx = (p1.param_idx + 1) % 256]
         IN  IF p2.param_idx >= p2.param_count /\ p2.param_count # 255
             THEN [p2 EXCEPT !.param_count = 0]
             ELSE p2

\* the two locals of transfer
is_data(tx_data) == (tx_data \div 256) % 2 = 1
byte(tx_data)    == tx_data % 256

\* PanelStub::transfer: the new panel and the returned bit count
transfer(p, tx_data) ==
    [ panel |-> IF is_data(tx_data) THEN write_param(p, byte(tx_data))
                                    ELSE write_cmd(p, byte(tx_data)),
      ret   |-> 9 ]

(***************************************************************************)
(* Sha256Controller                                                        *)
(***************************************************************************)
\* a u32 as its two 16-bit halves
W(h, l) == [hi |-> h, lo |-> l]

AndW(a, b) == W(BitAnd(a.hi, b.hi), BitAnd(a.lo, b.lo))
OrW(a, b)  == W(BitOr(a.hi, b.hi), BitOr(a.lo, b.lo))
NotW(a)    == W(65535 - a.hi, 65535 - a.lo)

\* a << n on u32, n < 32: the bits shifted out are lost
ShlW(a, n) ==
    IF n < 16
    THEN W((a.hi * Pow2(n) + (a.lo * Pow2(n)) \div 65536) % 65536,
           (a.lo * Pow2(n)) % 65536)
    ELSE W((a.lo * Pow2(n - 16)) % 65536, 0)

\* a >> n on u32, n < 32
ShrW(a, n) ==
    IF n < 16
    THEN W(a.hi \div Pow2(n),
           a.lo \div Pow2(n) + (a.hi % Pow2(n)) * Pow2(16 - n))
    ELSE W(0, a.hi \div Pow2(n - 16))

\* `x as u8`: the low eight bits (after `& 0xFF` nothing else is left)
AsU8(a) == a.lo % 256

\* Sha256Controller::INITIAL_STATE
INITIAL_STATE ==
    LET iv == << W(27145, 58983), W(47975, 44677), W(15470, 62322),
                 W(42319, 62778), W(20750, 21119), W(39685, 26764),
                 W(8067, 55723),  W(23520, 52505) >>
    IN  [i \in 0..7 |-> iv[i + 1]]

ZeroState == [i \in 0..7 |-> W(0, 0)]

\* Sha256Controller::new
ShaNew ==
    [ block |-> [i \in 0..15 |-> W(0, 0)],
      state |-> INITIAL_STATE,
      last  |-> 0 ]

\* mutant: reset clears the block and leaves the hash state
ShaReset_KeepState(s) ==
    [s EXCEPT !.block = [i \in 0..15 |-> W(0, 0)],
              !.last  = 0]

\* Sha256Controller::reset
ShaReset(s) ==
    [s EXCEPT !.block = [i \in 0..15 |-> W(0, 0)],
              !.state = INITIAL_STATE,
              !.last  = 0]

\* ((word >> bit_offset) & 0xFF) as u8
ByteAt(word, bit_offset) == AsU8(AndW(ShrW(word, bit_offset), W(0, 255)))

\* mutant: the quick-read window is wired to state[3]
read_QuickReadsState3(s, addr) ==
    LET index      == addr \div 4
        bit_offset == (addr % 4) * 8
    IN  IF index = 12 \div 4
        THEN ByteAt(s.state[3], bit_offset)
        ELSE IF index >= 16 \div 4 /\ index < 80 \div 4
        THEN LET block_idx == index - 16 \div 4
             IN  IF block_idx < 16
                 THEN ByteAt(s.block[block_idx], bit_offset)
                 ELSE 0
        ELSE IF index >= 96 \div 4 /\ index < 128 \div 4
        THEN LET state_idx == index - 96 \div 4
             IN  IF state_idx < 8
                 THEN ByteAt(s.state[state_idx], bit_offset)
                 ELSE 0
        ELSE 0

\* Sha256Controller::read
read(s, addr) ==
    LET index      == addr \div 4
        bit_offset == (addr % 4) * 8
    IN  IF index = 12 \div 4
        THEN ByteAt(s.state[7], bit_offset)
        ELSE IF index >= 16 \div 4 /\ index < 80 \div 4
        THEN LET block_idx == index - 16 \div 4
             IN  IF block_idx < 16
                 THEN ByteAt(s.block[block_idx], bit_offset)
                 ELSE 0
        ELSE IF index >= 96 \div 4 /\ index < 128 \div 4
        THEN LET state_idx == index - 96 \div 4
             IN  IF state_idx < 8
                 THEN ByteAt(s.state[state_idx], bit_offset)
                 ELSE 0
        ELSE 0

\* mutant: the IV is never reloaded
Control_NoReload(s, value) ==
    IF BitAnd(value, 16) # 0 THEN [s EXCEPT !.state = ZeroState] ELSE s

\* mutant: only the byte 0x10 itself clears the state
Control_ClearOn16Only(s, value) ==
    IF value = 16
    THEN [s EXCEPT !.state = ZeroState]
    ELSE IF BitAnd(value, 14) = 10
    THEN [s EXCEPT !.state = INITIAL_STATE]
    ELSE s

\* mutant: bit 4 clears the first state word only
Control_ClearsFirstWord(s, value) ==
    IF BitAnd(value, 16) # 0
    THEN [s EXCEPT !.state[0] = W(0, 0)]
    ELSE IF BitAnd(value, 14) = 10
    THEN [s EXCEPT !.state = INITIAL_STATE]
    ELSE s

\* mutant: the reload pattern is tested under the mask 0x0F
Control_Mask0F(s, value) ==
    IF BitAnd(value, 16) # 0
    THEN [s EXCEPT !.state = ZeroState]
    ELSE IF BitAnd(value, 15) = 10
    THEN [s EXCEPT !.state = INITIAL_STATE]
    ELSE s

\* mutant: the reload pattern is tested under the mask 0x0A
Control_Mask0A(s, value) ==
    IF BitAnd(value, 16) # 0
    THEN [s EXCEPT !.state = ZeroState]
    ELSE IF BitAnd(value, 10) = 10
    THEN [s EXCEPT !.state = INITIAL_STATE]
    ELSE s

\* the control register of write: bit 4 clears the state, otherwise the
\* pattern 0x0A under the mask 0x0E reloads the IV
Control(s, value) ==
    IF BitAnd(value, 16) # 0
    THEN [s EXCEPT !.state = ZeroState]
    ELSE IF BitAnd(value, 14) = 10
    THEN [s EXCEPT !.state = INITIAL_STATE]
    ELSE s

\* mutant: the old byte is not masked out
StoreByte_NoMask(word, bit_offset, value) ==
    OrW(word, ShlW(W(0, value), bit_offset))

\* (word & !(0xFF << bit_offset)) | ((value as u32) << bit_offset)
StoreByte(word, bit_offset, value) ==
    LET mask == NotW(ShlW(W(0, 255), bit_offset))
    IN  OrW(AndW(word, mask), ShlW(W(0, value), bit_offset))

\* mutant: the state region is writable like the block region
write_StateWritable(s, addr, value) ==
    LET index      == addr \div 4
        bit_offset == (addr % 4) * 8
    IN  IF addr = 0
        THEN Control(s, value)
        ELSE IF index >= 16 \div 4 /\ index < 80 \div 4
        THEN LET block_idx == index - 16 \div 4
             IN  IF block_idx < 16
                 THEN [s EXCEPT !.block[block_idx] =
                          StoreByte(s.block[block_idx], bit_offset, value)]
                 ELSE s
        ELSE IF index >= 96 \div 4 /\ index < 128 \div 4
        THEN LET state_idx == index - 96 \div 4
             IN  [s EXCEPT !.state[state_idx] =
                     StoreByte(s.state[state_idx], bit_offset, value)]
        ELSE s

\* Sha256Controller::write
write(s, addr, value) ==
    LET index      == addr \div 4
        bit_offset == (addr % 4) * 8
    IN  IF addr = 0
        THEN Control(s, value)
        ELSE IF index >= 16 \div 4 /\ index < 80 \div 4
        THEN LET block_idx == index - 16 \div 4
             IN  IF block_idx < 16
                 THEN [s EXCEPT !.block[block_idx] =
                          StoreByte(s.block[block_idx], bit_offset, value)]
                 ELSE s
        ELSE s

(***************************************************************************)
(* The panel's callers.  A frame is a 9-bit value: bit 8 set for data.     *)
(***************************************************************************)
NoFrame == -1

\* bounds of the model
MaxArgs   == 4   \* data bytes remembered in args
MaxParams == 5   \* data frames a command is followed by in Spec
MaxSent   == 6   \* frames of a scenario

\* the command bytes and data bytes the callers draw from: every command of
\* the table and two bytes outside it
KnownCmds == { NOP, SWRESET, SLPIN, SLPOUT, INVOFF, INVON, DISPOFF, DISPON,
               CASET, RASET, RAMWR, RAMWRC, MADCTL, COLMOD }
Cmds      == KnownCmds \cup { 2, 255 }
DataBytes == { 85 }

DataFrame(b) == 256 + b

Remember(tx) ==
    IF is_data(tx)
    THEN IF Len(args) < MaxArgs THEN Append(args, byte(tx)) ELSE args
    ELSE <<>>

\* one call of transfer that returns
Transfer(tx, logged) ==
    /\ status = "running"
    /\ LET r == transfer(panel, tx)
       IN  panel' = r.panel /\ ret' = r.ret
    /\ frame' = tx
    /\ args' = Remember(tx)
    /\ command' = IF is_data(tx) THEN command ELSE byte(tx)
    /\ sent' = IF logged THEN Append(sent, tx) ELSE sent
    /\ UNCHANGED <<status, sha, op, done, tvars, rvars>>

\* one call of transfer in a build with overflow checks, on a data frame
\* whose increment overflows: the call panics after the match and never
\* returns; the panel is left as the match left it
TransferPanic(tx) ==
    /\ status = "running"
    /\ is_data(tx)
    /\ Overflows(panel)
    /\ panel' = StoreParam(panel, byte(tx))
    /\ status' = "panicked"
    /\ frame' = tx
    /\ args' = Remember(tx)
    /\ UNCHANGED <<ret, command, sent, sha, op, done, tvars, rvars>>

(***************************************************************************)
(* The controller's callers: the bus reads and writes one byte at an       *)
(* offset of the window.                                                   *)
(***************************************************************************)
NoOp == [kind |-> "none", addr |-> 0, value |-> 0]

MaxDone == 2   \* writes of a scenario

\* the offsets and bytes the callers draw from
CtlAddr     == 0
QuickRead   == 12 .. 15      \* 0x0C..0x0F
BlockRegion == 16 .. 79      \* 0x10..0x4F
StateRegion == 96 .. 127     \* 0x60..0x7F
Offsets     == 0 .. 143      \* 0x00..0x8F

CtlVals     == { 0, 8, 10, 11, 14, 16, 26, 27, 42, 59, 255 }
BlockAddrs  == { 16, 19, 78 }
BlockVals   == { 0, 120, 255 }
OtherAddrs  == { 1, 12, 80, 128 }
OtherVals   == { 10, 16 }
ReadAddrs   == { 0, 16, 19, 78, 80, 96, 128 }
                 \cup QuickRead \cup 108 .. 111 \cup 124 .. 127

WriteInputs == ({CtlAddr} \X CtlVals) \cup (BlockAddrs \X BlockVals)
                 \cup (StateRegion \X {255}) \cup ({96, 111, 127} \X {0})
                 \cup (OtherAddrs \X OtherVals)

Write(a, v, logged) ==
    /\ sha' = write(sha, a, v)
    /\ op' = [kind |-> "write", addr |-> a, value |-> v]
    /\ done' = IF logged THEN Append(done, <<a, v>>) ELSE done
    /\ UNCHANGED <<pvars, tvars, rvars>>

Read(a) ==
    /\ op' = [kind |-> "read", addr |-> a, value |-> read(sha, a)]
    /\ UNCHANGED <<sha, done>>
    /\ UNCHANGED <<pvars, tvars, rvars>>

Reset ==
    /\ sha' = ShaReset(sha)
    /\ op' = [kind |-> "reset", addr |-> 0, value |-> 0]
    /\ UNCHANGED done
    /\ UNCHANGED <<pvars, tvars, rvars>>

(***************************************************************************)
(* clean_trace: the op field of one snapshot.  A string is the sequence of *)
(* its characters.                                                         *)
(***************************************************************************)
HexDigits ==
    << "0", "1", "2", "3", "4", "5", "6", "7",
       "8", "9", "A", "B", "C", "D", "E", "F" >>

\* format!("{:02X}", b) for a u8: two upper-case digits, zero padded
Hex02(b) == << HexDigits[(b \div 16) + 1], HexDigits[(b % 16) + 1] >>

Space == << " " >>

\* mutant: a 0xED opcode is printed alone
op_format_EdAlone(op1, op2, op3, op4) ==
    IF op1 = 221 \/ op1 = 253
    THEN IF op2 = 203
         THEN Hex02(op1) \o Space \o Hex02(op2) \o Space \o Hex02(op3)
                  \o Space \o Hex02(op4)
         ELSE Hex02(op1) \o Space \o Hex02(op2)
    ELSE IF op1 = 203
    THEN Hex02(op1) \o Space \o Hex02(op2)
    ELSE Hex02(op1)

\* the value of op_str in main
op_format(op1, op2, op3, op4) ==
    IF op1 = 221 \/ op1 = 253
    THEN IF op2 = 203
         THEN Hex02(op1) \o Space \o Hex02(op2) \o Space \o Hex02(op3)
                  \o Space \o Hex02(op4)
         ELSE Hex02(op1) \o Space \o Hex02(op2)
    ELSE IF op1 = 237 \/ op1 = 203
    THEN Hex02(op1) \o Space \o Hex02(op2)
    ELSE Hex02(op1)

\* the bytes found at PC..PC+3: the four prefixes and other opcodes
OpBytes == { 221, 253, 237, 203, 33, 1, 70, 82, 0, 255, 171 }

\* one iteration of the loop of main, as far as the op field goes
Snapshot ==
    /\ op_str = <<>>
    /\ op_str' = op_format(ops[1], ops[2], ops[3], ops[4])
    /\ UNCHANGED <<ops, pvars, svars, rvars>>

(***************************************************************************)
(* keypad_debug: main.  A token of a line is the sequence of its           *)
(* characters; `parts` is the sequence of the tokens of the line.          *)
(***************************************************************************)
Null    == 0
Handles == { 1, 2 }      \* what emu_create returns when it succeeds

Digits == << "0", "1", "2", "3", "4", "5", "6", "7", "8", "9" >>
IsDigit(ch)  == \E i \in 1..10 : Digits[i] = ch
DigitVal(ch) == (CHOOSE i \in 1..10 : Digits[i] = ch) - 1

Err     == [ok |-> FALSE, val |-> 0]
Ok(v)   == [ok |-> TRUE, val |-> v]

\* the digits of an i32, most significant first, added to acc with checked
\* arithmetic: sign * digit is added to acc * 10, out of range is an error
RECURSIVE ParseDigits(_, _, _)
ParseDigits(t, acc, sign) ==
    IF t = <<>> THEN Ok(acc)
    ELSE IF ~IsDigit(Head(t)) THEN Err
    ELSE LET dg == DigitVal(Head(t))
         IN  IF sign = 1
             THEN IF acc > 214748364 \/ (acc = 214748364 /\ dg > 7)
                  THEN Err
                  ELSE ParseDigits(Tail(t), acc * 10 + dg, sign)
             ELSE IF acc < -214748364 \/ (acc = -214748364 /\ dg > 8)
                  THEN Err
                  ELSE ParseDigits(Tail(t), acc * 10 - dg, sign)

\* str::parse::<i32>: an optional sign and at least one digit
parse(t) ==
    IF t = <<>> THEN Err
    ELSE IF Head(t) = "-"
    THEN IF Tail(t) = <<>> THEN Err ELSE ParseDigits(Tail(t), 0, -1)
    ELSE IF Head(t) = "+"
    THEN IF Tail(t) = <<>> THEN Err ELSE ParseDigits(Tail(t), 0, 1)
    ELSE ParseDigits(t, 0, 1)

\* Result::unwrap_or and Option::unwrap_or
unwrap_or(r, dflt) == IF r.ok THEN r.val ELSE dflt

\* mutant: 8 passes as a row or a column
in_range_UpTo8(row, col) == row >= 0 /\ row <= 8 /\ col >= 0 /\ col <= 8

\* row >= 0 && row < 8 && col >= 0 && col < 8
in_range(row, col) == row >= 0 /\ row < 8 /\ col >= 0 /\ col < 8

\* mutant: the result of emu_create is not tested
is_null_Never(ptr) == FALSE

\* emu.is_null()
is_null(ptr) == ptr = Null

NoCall == [fn |-> "none", emu |-> Null, row |-> 0, col |-> 0, arg |-> 0]

Call(f, e, r, c, a) == [fn |-> f, emu |-> e, row |-> r, col |-> c, arg |-> a]

\* the tokens and lines typed at the prompt
Tokens ==
    { <<"0">>, <<"7">>, <<"8">>, <<"-", "1">>, <<"+", "3">>, <<"x">>,
      <<"2", "1", "4", "7", "4", "8", "3", "6", "4", "8">> }
Words  == { <<"p">>, <<"p", "r", "e", "s", "s">>, <<"r">>,
            <<"r", "e", "l", "e", "a", "s", "e">>, <<"d">>, <<"s">>, <<"c">>,
            <<"q">>, <<"q", "u", "i", "t">>, <<"z">> }
KeyWords == { <<"p">>, <<"p", "r", "e", "s", "s">>, <<"r">>,
              <<"r", "e", "l", "e", "a", "s", "e">> }
Lines  == { <<w>> : w \in Words }
            \cup { <<w, a>> : w \in KeyWords \cup { <<"c">> }, a \in Tokens }
            \cup { <<w, a, b>> : w \in KeyWords, a \in Tokens, b \in Tokens }

\* emu_create and the null test after it: main returns on a null pointer
Create ==
    /\ rpc = "start"
    /\ \E ptr \in {Null} \cup Handles :
          /\ emu' = ptr
          /\ tally' = [tally EXCEPT !.create = @ + 1, !.handle = ptr]
          /\ rpc' = IF is_null(ptr) THEN "exit" ELSE "callback"
    /\ ffi' = Call("emu_create", Null, 0, 0, 0)
    /\ UNCHANGED <<stdin, line, pvars, svars, tvars>>

\* emu_set_log_callback, which takes no emulator pointer
SetCallback ==
    /\ rpc = "callback"
    /\ ffi' = Call("emu_set_log_callback", Null, 0, 0, 0)
    /\ rpc' = "prompt"
    /\ UNCHANGED <<emu, stdin, line, tally, pvars, svars, tvars>>

\* the arm of the match for a set-key command: down is 1 for press, 0 for
\* release
KeyArm(parts, down) ==
    IF Len(parts) >= 3
    THEN LET row == unwrap_or(parse(parts[2]), -1)
             col == unwrap_or(parse(parts[3]), -1)
         IN  IF in_range(row, col)
             THEN Call("emu_set_key", emu, row, col, down)
             ELSE ffi
    ELSE ffi

\* the arm of the match for the cycles command
CyclesArm(parts) ==
    LET cycles == IF Len(parts) >= 2 /\ parse(parts[2]).ok
                  THEN parse(parts[2]).val ELSE 1000
    IN  Call("emu_run_cycles", emu, 0, 0, cycles)

IsQuit(parts) ==
    parts # <<>> /\ parts[1] \in { <<"q">>, <<"q", "u", "i", "t">> }

\* the body of the loop after read_line has returned Ok: the call made for
\* `parts`, if any
Dispatch(parts) ==
    IF parts = <<>> THEN ffi
    ELSE IF parts[1] \in { <<"p">>, <<"p", "r", "e", "s", "s">> }
    THEN KeyArm(parts, 1)
    ELSE IF parts[1] \in { <<"r">>, <<"r", "e", "l", "e", "a", "s", "e">> }
    THEN KeyArm(parts, 0)
    ELSE IF parts[1] \in { <<"c">>, <<"c", "y", "c", "l", "e", "s">> }
    THEN CyclesArm(parts)
    ELSE ffi

\* one iteration of the loop on a line that was read
Iterate(parts) ==
    /\ line' = parts
    /\ ffi' = Dispatch(parts)
    /\ rpc' = IF IsQuit(parts) THEN "cleanup" ELSE "prompt"
    /\ UNCHANGED <<emu, tally, pvars, svars, tvars>>

\* print!("> ") and stdout.flush() succeed: on to read_line
Prompt ==
    /\ rpc = "prompt"
    /\ rpc' = "read"
    /\ UNCHANGED <<emu, stdin, line, ffi, tally, pvars, svars, tvars>>

\* read_line returns Ok with a line of the input
ReadLine ==
    /\ rpc = "read"
    /\ stdin = "open"
    /\ \E parts \in Lines \cup { <<>> } : Iterate(parts)
    /\ UNCHANGED stdin

\* read_line returns Ok(0): the input is exhausted, the line is empty, and
\* the loop continues
ReadEof ==
    /\ rpc = "read"
    /\ stdin' = "eof"
    /\ Iterate(<<>>)

\* read_line returns Err: break
ReadErr ==
    /\ rpc = "read"
    /\ rpc' = "cleanup"
    /\ UNCHANGED <<emu, stdin, line, ffi, tally, pvars, svars, tvars>>

\* stdout.flush().unwrap() panics: main unwinds without the cleanup
FlushPanics ==
    /\ rpc = "prompt"
    /\ rpc' = "panicked"
    /\ UNCHANGED <<emu, stdin, line, ffi, tally, pvars, svars, tvars>>

\* emu_destroy and the end of main
Cleanup ==
    /\ rpc = "cleanup"
    /\ ffi' = Call("emu_destroy", emu, 0, 0, 0)
    /\ tally' = [tally EXCEPT !.destroy = @ + 1]
    /\ rpc' = "exit"
    /\ UNCHANGED <<emu, stdin, line, pvars, svars, tvars>>

(***************************************************************************)
(* Specifications                                                          *)
(***************************************************************************)
Init ==
    /\ panel = PanelNew
    /\ ret = 0
    /\ status = "running"
    /\ frame = NoFrame
    /\ args = <<>>
    /\ command = NoFrame
    /\ sent = <<>>
    /\ sha = ShaNew
    /\ op = NoOp
    /\ done = <<>>
    /\ ops = <<0, 0, 0, 0>>
    /\ op_str = <<>>
    /\ rpc = "start"
    /\ emu = Null
    /\ stdin = "open"
    /\ line = <<>>
    /\ ffi = NoCall
    /\ tally = [create |-> 0, destroy |-> 0, handle |-> Null]

\* the panel under every command, each followed by at most MaxParams
\* counted data frames
SendCmd  == \E c \in Cmds : Transfer(c, FALSE)
SendData == \E d \in DataBytes :
                /\ panel.param_idx < MaxParams
                /\ Transfer(DataFrame(d), FALSE)

Next == SendCmd \/ SendData

Spec == Init /\ [][Next]_vars

\* the controller under bus writes, bus reads and reset
BusWrite == \E w \in WriteInputs : Write(w[1], w[2], FALSE)
BusRead  == \E a \in ReadAddrs : Read(a)

NextSha == BusWrite \/ BusRead \/ Reset

SpecSha == Init /\ [][NextSha]_vars

\* the panel under a command that absorbs its parameters, followed by any
\* number of data frames, in both builds: without overflow checks every call
\* returns, with overflow checks the overflowing call panics
AbsorbCmds == { 2, NOP, CASET }

AbsorbCmd   == \E c \in AbsorbCmds : Transfer(c, FALSE)
AbsorbData  == \E d \in DataBytes : Transfer(DataFrame(d), FALSE)
AbsorbPanic == \E d \in DataBytes : TransferPanic(DataFrame(d))

NextAbsorb == AbsorbCmd \/ AbsorbData \/ AbsorbPanic

SpecAbsorb == Init /\ [][NextAbsorb]_vars

\* the panel under the commands that take parameters, with two data bytes
WindowCmds == { CASET, RASET, MADCTL, COLMOD, NOP, SWRESET, RAMWR, 2 }
WindowData == { 0, 85 }

SendWindowCmd == \E c \in WindowCmds : Transfer(c, FALSE)
SendWindowData == \E d \in WindowData :
                  /\ panel.param_idx < MaxParams
                  /\ Transfer(DataFrame(d), FALSE)

NextWindow == SendWindowCmd \/ SendWindowData

SpecWindow == Init /\ [][NextWindow]_vars

\* a freshly constructed panel sent at most MaxSent frames, all recorded
ScenarioFrames == { CASET, NOP, 256, 257, 319 }

ScenarioSend == \E f \in ScenarioFrames :
                    /\ Len(sent) < MaxSent
                    /\ Transfer(f, TRUE)

NextPanelScenario == ScenarioSend

SpecPanelScenario == Init /\ [][NextPanelScenario]_vars

\* a freshly constructed controller after at most MaxDone control writes,
\* all recorded, and then read
ScenarioWrite == \E v \in CtlVals :
                    /\ Len(done) < MaxDone
                    /\ Write(CtlAddr, v, TRUE)
ScenarioRead  == \E a \in ReadAddrs : Read(a)

NextShaScenario == ScenarioWrite \/ ScenarioRead

SpecShaScenario == Init /\ [][NextShaScenario]_vars

\* the trace logger on every choice of four bytes at PC
InitTrace ==
    /\ panel = PanelNew
    /\ ret = 0
    /\ status = "running"
    /\ frame = NoFrame
    /\ args = <<>>
    /\ command = NoFrame
    /\ sent = <<>>
    /\ sha = ShaNew
    /\ op = NoOp
    /\ done = <<>>
    /\ ops \in OpBytes \X OpBytes \X OpBytes \X OpBytes
    /\ op_str = <<>>
    /\ rpc = "start"
    /\ emu = Null
    /\ stdin = "open"
    /\ line = <<>>
    /\ ffi = NoCall
    /\ tally = [create |-> 0, destroy |-> 0, handle |-> Null]

NextTrace == Snapshot

SpecTrace == InitTrace /\ [][NextTrace]_vars

\* the keypad tool on every sequence of lines
NextRepl ==
    \/ Create
    \/ SetCallback
    \/ Prompt
    \/ ReadLine
    \/ ReadEof
    \/ ReadErr
    \/ FlushPanics
    \/ Cleanup

SpecRepl == Init /\ [][NextRepl]_vars

\* the keypad tool on a terminal that always accepts the prompt
NextReplFlushed ==
    \/ Create
    \/ SetCallback
    \/ Prompt
    \/ ReadLine
    \/ ReadEof
    \/ ReadErr
    \/ Cleanup

\* main runs on: every statement it reaches is executed, and read_line
\* returns; what read_line returns is up to the terminal
ReplFairness ==
    /\ WF_vars(Create)
    /\ WF_vars(SetCallback)
    /\ WF_vars(Prompt)
    /\ WF_vars(ReadLine \/ ReadEof \/ ReadErr)
    /\ WF_vars(Cleanup)

SpecReplFair == Init /\ [][NextReplFlushed]_vars /\ ReplFairness

(***************************************************************************)
(* Properties                                                              *)
(***************************************************************************)
\* byte k (0 the least significant) of a u32
ByteLE(w, k) == IF k < 2 THEN (w.lo \div Pow2(8 * k)) % 256
                         ELSE (w.hi \div Pow2(8 * (k - 2))) % 256

Called == frame # NoFrame

\* C1: every transfer call returns, and returns 9, whatever the frame and
\* whatever frames came before.
C1_TransferReturns9 == Called => (status = "running" /\ ret = 9)

\* C2: after a SWRESET command frame every field of the panel has its value
\* in PanelStub::new(), so a second SWRESET frame changes nothing.
C2_SwresetReinitializes ==
    /\ [](frame = SWRESET => panel = PanelNew)
    /\ [][(frame = SWRESET /\ frame' = SWRESET) => panel' = panel]_vars

C2_Witness == frame = SWRESET /\ panel = PanelNew /\ ret = 9

\* C3: a write of any byte to an offset in 0x60..0x7F leaves the value read
\* at every offset as it was before the write.
C3_StateRegionReadOnly ==
    [][(op'.kind = "write" /\ op'.addr \in StateRegion)
          => \A a \in Offsets : read(sha', a) = read(sha, a)]_vars

C3_Witness ==
    /\ op.kind = "write" /\ op.addr = 111 /\ op.value = 255
    /\ read(sha, 111) = 165
    /\ read(sha, 19) = 120
    /\ read(sha, 78) = 255

IvReload == << <<CtlAddr, 16>>, <<CtlAddr, 10>> >>

ReadAll(s, addrs) == [i \in 1..Len(addrs) |-> read(s, addrs[i])]

\* C4 as stated: from new(), after writing 0x10 and then 0x0A to offset 0x00,
\* offsets 0x6C..0x6F read 0x19, 0xcd, 0xe0, 0x5b.
C4_IvReloadAt6C ==
    done = IvReload
       => ReadAll(sha, <<108, 109, 110, 111>>) = <<25, 205, 224, 91>>

\* C4 amended: from new(), after writing 0x10 and then 0x0A to offset 0x00,
\* the bytes 0x19, 0xcd, 0xe0, 0x5b of state[7] are read at offsets
\* 0x7C..0x7F (and at 0x0C..0x0F); offsets 0x6C..0x6F read the bytes 0x3a,
\* 0xf5, 0x4f, 0xa5 of state[3].
C4_IvReloadAt7C ==
    done = IvReload
       => /\ ReadAll(sha, <<124, 125, 126, 127>>) = <<25, 205, 224, 91>>
          /\ ReadAll(sha, <<12, 13, 14, 15>>) = <<25, 205, 224, 91>>
          /\ ReadAll(sha, <<108, 109, 110, 111>>) = <<58, 245, 79, 165>>

C4_Witness ==
    done = IvReload /\ op.kind = "read" /\ op.addr = 124 /\ op.value = 25

\* the six frames of the scenario as the specification writes them, and the
\* five frames of tests::test_caset
SpecCasetFrames ==
    << CASET, 256, BitOr(257, 0), BitOr(257, 0), BitOr(257, 1), BitOr(257, 63) >>
TestCasetFrames ==
    << CASET, BitOr(256, 0), BitOr(256, 0), BitOr(256, 1), BitOr(256, 63) >>

\* C5 as stated: a fresh panel sent 0x2A, 0x100, 0x101|0, 0x101|0, 0x101|1,
\* 0x101|0x3F has caset = [0x00, 0x00, 0x01, 0x3F].
C5_CasetScenario ==
    sent = SpecCasetFrames => panel.caset = <<0, 0, 1, 63>>

\* C5 amended: a fresh panel sent 0x2A, 0x100|0, 0x100|0, 0x100|1, 0x100|0x3F
\* has caset = [0x00, 0x00, 0x01, 0x3F]; sent the six frames 0x2A, 0x100,
\* 0x101|0, 0x101|0, 0x101|1, 0x101|0x3F it has caset = [0x00, 0x01, 0x01,
\* 0x01], the sixth frame being swallowed.
C5_CasetScenarioAmended ==
    /\ sent = TestCasetFrames => panel.caset = <<0, 0, 1, 63>>
    /\ sent = SpecCasetFrames => panel.caset = <<0, 1, 1, 1>>

C5_Witness ==
    sent = SpecCasetFrames /\ panel.param_count = 0 /\ panel.param_idx = 4

\* C6: the data frames that follow a CASET, RASET, MADCTL or COLMOD command
\* frame are stored in arrival order in that command's register: four after
\* CASET give caset = [d0,d1,d2,d3] and leave raset as it was, four after RASET
\* give raset = [d0,d1,d2,d3] and leave caset as it was, one after MADCTL or
\* COLMOD gives madctl = d or colmod = d.
C6_ParamsInArrivalOrder ==
    /\ [](/\ (panel.current_cmd = CASET /\ Len(args) >= 4)
                => panel.caset = SubSeq(args, 1, 4)
          /\ (panel.current_cmd = RASET /\ Len(args) >= 4)
                => panel.raset = SubSeq(args, 1, 4)
          /\ (panel.current_cmd = MADCTL /\ Len(args) >= 1)
                => panel.madctl = args[1]
          /\ (panel.current_cmd = COLMOD /\ Len(args) >= 1)
                => panel.colmod = args[1])
    /\ [][/\ panel'.current_cmd = CASET => panel'.raset = panel.raset
          /\ panel'.current_cmd = RASET => panel'.caset = panel.caset]_vars

C6_Witness ==
    /\ panel.current_cmd = CASET
    /\ args = <<85, 0, 0, 85>>
    /\ panel.caset = <<85, 0, 0, 85>>
    /\ panel.raset = <<0, 85, 85, 0>>
    /\ panel.madctl = 85

IsCtlWrite(o) == o.kind = "write" /\ o.addr = CtlAddr

\* C7: a write to offset 0x00 of any byte with bit 4 set leaves the eight
\* state words 0 and the input block as it was.
C7_Bit4ClearsState ==
    [][(IsCtlWrite(op') /\ BitAnd(op'.value, 16) # 0)
          => (sha'.state = ZeroState /\ sha'.block = sha.block)]_vars

C7_Witness ==
    /\ IsCtlWrite(op) /\ op.value = 27
    /\ sha.state = ZeroState
    /\ read(sha, 16) = 120

\* C8 as stated: a write to offset 0x00 of any byte whose low nibble is 0x0A
\* or 0x0B leaves the state equal to the SHA-256 IV.
C8_LowNibbleReloadsIv ==
    (IsCtlWrite(op) /\ op.value % 16 \in {10, 11})
       => sha.state = INITIAL_STATE

\* C8 amended: a write to offset 0x00 of any byte with bit 4 clear and low
\* nibble 0x0A or 0x0B leaves the state equal to the SHA-256 IV (with bit 4
\* set the state is zeroed instead).
C8_LowNibbleReloadsIvBit4Clear ==
    (IsCtlWrite(op) /\ op.value % 16 \in {10, 11}
                    /\ (op.value \div 16) % 2 = 0)
       => sha.state = INITIAL_STATE

C8_Witness ==
    /\ IsCtlWrite(op) /\ op.value = 11
    /\ sha.state = INITIAL_STATE
    /\ read(sha, 16) = 255

\* C9: offsets 0x0C..0x0F read the four bytes of state[7], least significant
\* first, and so do offsets 0x7C..0x7F.
C9_QuickReadMirrorsState7 ==
    \A k \in 0..3 :
        /\ read(sha, 12 + k) = ByteLE(sha.state[7], k)
        /\ read(sha, 12 + k) = read(sha, 124 + k)

C9_Witness ==
    op.kind = "read" /\ op.addr = 13 /\ op.value = 205

\* C10: after a write of v to an offset a in 0x10..0x4F, a reads v, the byte
\* is byte a mod 4 of block word (a - 0x10) div 4, every other block offset
\* reads as before, and the state is as before.
C10_BlockRoundTrip ==
    [][(op'.kind = "write" /\ op'.addr \in BlockRegion)
          => /\ read(sha', op'.addr) = op'.value
             /\ ByteLE(sha'.block[(op'.addr - 16) \div 4], op'.addr % 4)
                   = op'.value
             /\ \A b \in BlockRegion \ {op'.addr} : read(sha', b) = read(sha, b)
             /\ sha'.state = sha.state]_vars

C10_Witness ==
    /\ op.kind = "write" /\ op.addr = 19 /\ op.value = 120
    /\ sha.block[0] = W(30720, 255)
    /\ sha.state = ZeroState

\* the standard SHA-256 initial hash value, as its 32 bytes in the order
\* they are printed (most significant byte of each word first)
StandardIvBytes ==
    << 106,   9, 230, 103,   187, 103, 174, 133,
        60, 110, 243, 114,   165,  79, 245,  58,
        81,  14,  82, 127,   155,   5, 104, 140,
        31, 131, 217, 171,    91, 224, 205,  25 >>

IsStandardIv(st) ==
    \A i \in 0..7 : \A k \in 0..3 :
        ByteLE(st[i], k) = StandardIvBytes[4 * i + (3 - k) + 1]

\* C11: a new panel is sleeping with the display off; a new controller, and
\* a controller after reset(), has the standard IV as state and an all-zero
\* input block.
C11_ResetValues ==
    /\ frame = NoFrame => (panel.sleeping /\ ~panel.display_on)
    /\ op.kind \in {"none", "reset"}
          => /\ IsStandardIv(sha.state)
             /\ \A i \in 0..15 : sha.block[i] = W(0, 0)

C11_Witness ==
    op.kind = "reset" /\ frame = NoFrame /\ panel.sleeping /\ read(sha, 124) = 25

NotInTable(c) == c # NoFrame /\ c \notin KnownCmds

\* C12 as stated: after a RAMWR or RAMWRC command frame, or a command frame
\* with a byte outside the table, param_count is 0xFF, and stays 0xFF over
\* the data frames that follow.
C12_AbsorbCountIsFF ==
    (command \in {RAMWR, RAMWRC} \/ NotInTable(command))
       => panel.param_count = 255

\* C12 amended: after a command frame with a byte outside the table
\* param_count is 0xFF and stays 0xFF over the data frames that follow;
\* after a RAMWR or RAMWRC command frame param_count is 0 and stays 0, the
\* data frames being swallowed by the early return of write_param.
C12_AbsorbCount ==
    /\ NotInTable(command) => panel.param_count = 255
    /\ command \in {RAMWR, RAMWRC} => panel.param_count = 0

C12_Witness ==
    /\ command = 255 /\ Len(args) = MaxArgs /\ is_data(frame)
    /\ panel.param_count = 255 /\ panel.param_idx >= 4

ZeroParamCmds == { NOP, SLPIN, SLPOUT, INVOFF, INVON, DISPOFF, DISPON }

\* C13: a SLPIN/SLPOUT, INVOFF/INVON, DISPOFF/DISPON or NOP command frame
\* sets its own flag (NOP none) at once, leaves the other flags and madctl,
\* colmod, caset, raset as they were, and leaves param_count = 0.
C13_ZeroParamCommands ==
    [][(frame' \in ZeroParamCmds)
          => /\ panel'.sleeping =
                   (IF frame' = SLPIN THEN TRUE
                    ELSE IF frame' = SLPOUT THEN FALSE ELSE panel.sleeping)
             /\ panel'.inverted =
                   (IF frame' = INVON THEN TRUE
                    ELSE IF frame' = INVOFF THEN FALSE ELSE panel.inverted)
             /\ panel'.display_on =
                   (IF frame' = DISPON THEN TRUE
                    ELSE IF frame' = DISPOFF THEN FALSE ELSE panel.display_on)
             /\ panel'.madctl = panel.madctl
             /\ panel'.colmod = panel.colmod
             /\ panel'.caset = panel.caset
             /\ panel'.raset = panel.raset
             /\ panel'.param_count = 0]_vars

C13_Witness ==
    /\ frame = DISPON /\ panel.display_on
    /\ panel.sleeping /\ panel.inverted
    /\ panel.madctl = 85 /\ panel.caset = <<85, 85, 0, 0>>

IsCmdFrame(f) == f # NoFrame /\ ~is_data(f)

\* C15 as stated: right after a command frame with byte b, current_cmd = b
\* and param_idx = 0.
C15_CommandRecorded ==
    IsCmdFrame(frame) => (panel.current_cmd = byte(frame) /\ panel.param_idx = 0)

\* C15 amended: right after a command frame with byte b other than SWRESET,
\* current_cmd = b and param_idx = 0; right after a SWRESET frame
\* current_cmd has its reset value 0 and param_idx = 0.
C15_CommandRecordedUnlessReset ==
    IsCmdFrame(frame)
       => /\ panel.param_idx = 0
          /\ panel.current_cmd = (IF byte(frame) = SWRESET THEN 0 ELSE byte(frame))

C15_Witness ==
    /\ frame = RASET /\ panel.current_cmd = RASET /\ panel.param_idx = 0
    /\ panel.caset = <<85, 85, 0, 0>>

\* the last command has received all the parameters it takes
Served ==
    IF command \in {CASET, RASET} THEN Len(args) >= 4
    ELSE IF command \in {MADCTL, COLMOD} THEN Len(args) >= 1
    ELSE TRUE

\* C16: a data frame that arrives when the last command has received all
\* the parameters it takes (four for CASET/RASET, one for MADCTL/COLMOD,
\* none for every other command) leaves sleeping, display_on, inverted,
\* madctl, colmod, caset and raset as they were.
C16_ExtraDataSwallowed ==
    [][(is_data(frame') /\ Served)
          => /\ panel'.sleeping = panel.sleeping
             /\ panel'.display_on = panel.display_on
             /\ panel'.inverted = panel.inverted
             /\ panel'.madctl = panel.madctl
             /\ panel'.colmod = panel.colmod
             /\ panel'.caset = panel.caset
             /\ panel'.raset = panel.raset]_vars

C16_Witness ==
    /\ command = MADCTL /\ args = <<85, 0>> /\ panel.madctl = 85
    /\ panel.caset = <<0, 85, 0, 85>>

Unmapped == (1 .. 15) \cup (80 .. 95) \cup (128 .. 255)

\* C17: a write to offset 0x00 of a byte with bit 4 clear and bits 3..1 other
\* than 101 changes neither the state nor the block; a write of any byte to
\* 0x01..0x0F, 0x50..0x5F or 0x80 and above changes nothing.
C17_OtherWritesAreNoOps ==
    [][(/\ op'.kind = "write"
        /\ \/ /\ op'.addr = CtlAddr
              /\ (op'.value \div 16) % 2 = 0
              /\ (op'.value \div 2) % 8 # 5
           \/ op'.addr \in Unmapped)
          => sha' = sha]_vars

C17_Witness ==
    /\ IsCtlWrite(op) /\ op.value = 14
    /\ sha.state = ZeroState
    /\ read(sha, 78) = 120

\* C20 as stated: param_idx counts the data frames of the current command
\* and its increment never overflows: no call panics, and param_idx never
\* falls below the number of data bytes remembered for the command.
C20_ParamIdxNeverOverflows ==
    /\ status = "running"
    /\ panel.param_count # 0 => panel.param_idx >= Len(args)

\* the number of bytes of the instruction prefix shown for the bytes b
OpLen(b) ==
    IF b[1] \in {221, 253} /\ b[2] = 203 THEN 4
    ELSE IF b[1] \in {221, 253, 237, 203} THEN 2
    ELSE 1

UpperHex == << "0", "1", "2", "3", "4", "5", "6", "7", "8", "9", "A", "B",
               "C", "D", "E", "F" >>

\* the value of two uppercase hex digits, -1 when one of them is not one
HexValue(hi, lo) ==
    IF (\E i \in 1..16 : UpperHex[i] = hi) /\ (\E j \in 1..16 : UpperHex[j] = lo)
    THEN 16 * ((CHOOSE i \in 1..16 : UpperHex[i] = hi) - 1)
         + ((CHOOSE j \in 1..16 : UpperHex[j] = lo) - 1)
    ELSE -1

\* C14: once the snapshot is taken, its op field shows the first OpLen
\* bytes at PC (four after DD CB or FD CB, two after DD, FD, ED or CB, one
\* otherwise), each as two uppercase hex digits, with one space between
\* bytes; DD CB 01 46 gives "DD CB 01 46", ED 52 gives "ED 52" and 21
\* gives "21".
C14_OpFormat ==
    op_str # <<>> =>
        /\ Len(op_str) = 3 * OpLen(ops) - 1
        /\ \A i \in 1..OpLen(ops) :
              /\ HexValue(op_str[3 * i - 2], op_str[3 * i - 1]) = ops[i]
              /\ i < OpLen(ops) => op_str[3 * i] = " "
        /\ ops = <<221, 203, 1, 70>> =>
              op_str = <<"D", "D", " ", "C", "B", " ", "0", "1", " ", "4", "6">>
        /\ (ops[1] = 237 /\ ops[2] = 82) =>
              op_str = <<"E", "D", " ", "5", "2">>
        /\ ops[1] = 33 => op_str = <<"2", "1">>

C14_Witness ==
    /\ ops = <<253, 203, 171, 0>>
    /\ op_str = <<"F", "D", " ", "C", "B", " ", "A", "B", " ", "0", "0">>

PressWords   == { <<"p">>, <<"p", "r", "e", "s", "s">> }
ReleaseWords == { <<"r">>, <<"r", "e", "l", "e", "a", "s", "e">> }

\* C18: every emu_set_key call has row and col in 0..7 and down in {0, 1},
\* and a call made for a line has down = 1 when the line is a press command
\* and down = 0 when it is a release command, with both arguments present.
C18_SetKeyInRange ==
    [][ ffi'.fn = "emu_set_key" =>
          /\ ffi'.row \in 0..7
          /\ ffi'.col \in 0..7
          /\ ffi'.arg \in {0, 1}
          /\ ffi' # ffi =>
                /\ Len(line') >= 3
                /\ ffi'.arg = 1 <=> line'[1] \in PressWords
                /\ ffi'.arg = 0 <=> line'[1] \in ReleaseWords ]_vars

C18_Witness ==
    /\ ffi.fn = "emu_set_key"
    /\ ffi.row = 7 /\ ffi.col = 3 /\ ffi.arg = 0
    /\ line = << <<"r", "e", "l", "e", "a", "s", "e">>, <<"7">>, <<"+", "3">> >>

\* C19: emu_create is called once; every emu_set_key, emu_run_cycles and
\* emu_destroy call passes the pointer emu_create returned, which is not
\* null; after a null result no further call is made and main has
\* returned; emu_destroy is called at most once and is the last call.
C19_FfiProtocol ==
    /\ tally.create <= 1
    /\ tally.destroy <= 1
    /\ ffi.fn \in {"emu_set_key", "emu_run_cycles", "emu_destroy"} =>
          /\ tally.create = 1
          /\ ffi.emu = tally.handle
          /\ ffi.emu # Null
    /\ ffi.fn \in {"emu_set_key", "emu_run_cycles"} => tally.destroy = 0
    /\ tally.destroy = 1 => ffi.fn = "emu_destroy"
    /\ (tally.create = 1 /\ tally.handle = Null) =>
          /\ ffi.fn = "emu_create"
          /\ rpc = "exit"

C19_Witness ==
    /\ tally = [create |-> 1, destroy |-> 1, handle |-> 2]
    /\ ffi = Call("emu_destroy", 2, 0, 0, 0)
    /\ line = << <<"q", "u", "i", "t">> >>

\* C21: in every reachable state of the controller the eight state words
\* are the standard SHA-256 IV or are all zero, whatever was read, written
\* or reset before.
C21_StateIsIvOrZero ==
    IsStandardIv(sha.state) \/ sha.state = ZeroState

C21_Witness ==
    /\ op.kind = "write" /\ op.addr \in StateRegion /\ op.value = 255
    /\ sha.state = ZeroState
    /\ sha.block[15] # W(0, 0)

\* C22: once standard input is exhausted, or a quit command has been read,
\* the loop is eventually left and main ends with emu_destroy called
\* exactly once.
C22_TerminatesAtEndOfInput ==
    (stdin = "eof" \/ IsQuit(line)) ~> (rpc = "exit" /\ tally.destroy = 1)

\* the quit command alone: once it has been read, main ends with
\* emu_destroy called exactly once
QuitLeavesLoop ==
    IsQuit(line) ~> (rpc = "exit" /\ tally.destroy = 1)

====
